---- MODULE Spec2Model ----
(***************************************************************************)
(* Model of cmd/link/internal/loadxcoff: Load and getSymbolType.           *)
(* Load is a sequential procedure; the model follows it loop iteration by  *)
(* loop iteration: the section pass, the symbol pass, the relocation pass. *)
(***************************************************************************)
EXTENDS Integers, Sequences, FiniteSets, TLC

VARIABLES
    syms,            \* the link-wide namespace: (name, version) -> symbol
    nver,            \* len(syms.hash): the number of versions minted so far
    inputs,          \* the object files still to be handed to Load
    pc,              \* position of the current Load call
    pkg,             \* Load's pkg argument
    f,               \* the xcoff.File of the current Load
    localSymVersion, \* Load's localSymVersion
    ldSections,      \* Load's ldSections
    isect,           \* index of the next entry of f.Sections
    isym,            \* index of the next entry of f.Symbols
    irel,            \* index of the next entry of ldSections
    cls,             \* (stype, err) of the last getSymbolType call
    textp,           \* Load's textp
    ret,             \* what the last Load returned
    syms0,           \* history: the namespace when this Load began
    earlier          \* history: section symbols of the Loads that have ended

vars == <<syms, nver, inputs, pc, pkg, f, localSymVersion, ldSections,
          isect, isym, irel, cls, textp, ret, syms0, earlier>>

-----------------------------------------------------------------------------
(* Bounds of the model. *)
MaxSect == 2
MaxSym == 2
MaxReloc == 2
MaxLoads == 2

-----------------------------------------------------------------------------
(* debug/xcoff constants used by the loader. *)
STYP_DWARF == 16
STYP_TEXT == 32
STYP_DATA == 64
STYP_BSS == 128
STYP_DEBUG == 8192

C_EXT == 2
C_FILE == 103
C_HIDEXT == 107
C_WEAKEXT == 111

XMC_PR == 0
XMC_RW == 5
XMC_DS == 10
XMC_TC0 == 15
XMC_TE == 22

R_POS == 0
R_RBR == 26

-----------------------------------------------------------------------------
(* sym.Symbols, sym.Symbol, sym.Reloc *)

Key(name, version) == <<name, version>>

NilSym == <<"", -1>>

NilBuf == [isNil |-> TRUE, bytes |-> <<>>]

Buf(bytes) == [isNil |-> FALSE, bytes |-> bytes]

\* the symbol a Lookup creates
NewSym == [Type |-> "Sxxx", Size |-> 0, P |-> NilBuf, R |-> <<>>, OnList |-> FALSE]

\* the zero value of sym.Reloc
ZeroReloc == [Off |-> 0, Siz |-> 0, Type |-> "0", Add |-> 0, Sym |-> NilSym]

EmptySyms == [k \in {} |-> NewSym]

\* syms.Lookup(name, v): the namespace after the call
Lookup(S, name, v) ==
    IF Key(name, v) \in DOMAIN S
    THEN S
    ELSE [k \in DOMAIN S \cup {Key(name, v)} |->
             IF k \in DOMAIN S THEN S[k] ELSE NewSym]

\* the namespace after Lookup(n, 0) for every name of the sequence names
RECURSIVE LookupAll(_, _)
LookupAll(S, names) ==
    IF names = <<>> THEN S
    ELSE LookupAll(Lookup(S, Head(names), 0), Tail(names))

\* syms.IncVersion(): the new length of syms.hash and the version returned
IncVersion(n) == [nver |-> n + 1, version |-> n]

\* fmt.Sprintf("%s(%s)", pkg, lds.Name)
SectSymName(p, name) == p \o "(" \o name \o ")"

-----------------------------------------------------------------------------
(* Integer conversions.  A uint64 is [hi, lo], standing for hi * 2^31 + lo *)
(* with 0 <= lo < 2^31; hi = AllOnes stands for the 33 high bits all set.  *)

AllOnes == -1

U64(hi, lo) == [hi |-> hi, lo |-> lo]

MinInt32 == -2147483647 - 1

\* int32(v): the low 32 bits, two's complement
Int32(v) == IF v.hi % 2 = 0 THEN v.lo ELSE MinInt32 + v.lo

\* uint64(n) of an int32 n: sign extension
U64OfInt32(n) == IF n >= 0 THEN U64(0, n) ELSE U64(AllOnes, n - MinInt32)

-----------------------------------------------------------------------------
(* getSymbolType *)

Result(stype, err) == [stype |-> stype, err |-> err]

NoResult == Result("none", "")

\* f.Sections[s.SectionNumber-1] indexes inside the slice
SectIndexOK(file, s) ==
    s.SectionNumber - 1 >= 0 /\ s.SectionNumber - 1 < Len(file.Sections)

GetSymbolTypeNoBssRW(file, s) ==
    IF s.SectionNumber = -2
    THEN IF s.StorageClass = C_FILE
         THEN Result("Sxxx", "")
         ELSE Result("Sxxx", "sectionNumber-2")
    ELSE IF s.SectionNumber = 0
    THEN Result("Sxxx", "")
    ELSE LET sectType == file.Sections[s.SectionNumber].Type
             smc == s.StorageMappingClass
         IN  IF sectType \in {STYP_DWARF, STYP_DEBUG}
             THEN Result("Sxxx", "")
             ELSE IF sectType \notin {STYP_DATA, STYP_BSS, STYP_TEXT}
             THEN Result("Sxxx", "sectType")
             ELSE IF s.StorageClass \notin {C_HIDEXT, C_EXT, C_WEAKEXT}
             THEN Result("Sxxx", "storageClass")
             ELSE IF smc = XMC_PR
             THEN IF sectType = STYP_TEXT
                  THEN Result("STEXT", "")
                  ELSE Result("Sxxx", "XMC_PR")
             ELSE IF smc = XMC_RW
             THEN IF sectType = STYP_DATA
                  THEN Result("SDATA", "")
                  ELSE Result("Sxxx", "XMC_RW")
             ELSE IF smc = XMC_DS
             THEN IF sectType = STYP_DATA
                  THEN Result("SDATA", "")
                  ELSE Result("Sxxx", "XMC_DS")
             ELSE IF smc \in {XMC_TC0, XMC_TE}
             THEN IF sectType = STYP_DATA
                  THEN Result("SXCOFFTOC", "")
                  ELSE Result("Sxxx", "XMC_TC0")
             ELSE Result("Sxxx", "storageMap")

GetSymbolType(file, s) ==
    IF s.SectionNumber = -2
    THEN IF s.StorageClass = C_FILE
         THEN Result("Sxxx", "")
         ELSE Result("Sxxx", "sectionNumber-2")
    ELSE IF s.SectionNumber = 0
    THEN Result("Sxxx", "")
    ELSE LET sectType == file.Sections[s.SectionNumber].Type
             smc == s.StorageMappingClass
         IN  IF sectType \in {STYP_DWARF, STYP_DEBUG}
             THEN Result("Sxxx", "")
             ELSE IF sectType \notin {STYP_DATA, STYP_BSS, STYP_TEXT}
             THEN Result("Sxxx", "sectType")
             ELSE IF s.StorageClass \notin {C_HIDEXT, C_EXT, C_WEAKEXT}
             THEN Result("Sxxx", "storageClass")
             ELSE IF smc = XMC_PR
             THEN IF sectType = STYP_TEXT
                  THEN Result("STEXT", "")
                  ELSE Result("Sxxx", "XMC_PR")
             ELSE IF smc = XMC_RW
             THEN IF sectType = STYP_DATA
                  THEN Result("SDATA", "")
                  ELSE IF sectType = STYP_BSS
                  THEN Result("SDATA", "")
                  ELSE Result("Sxxx", "XMC_RW")
             ELSE IF smc = XMC_DS
             THEN IF sectType = STYP_DATA
                  THEN Result("SDATA", "")
                  ELSE Result("Sxxx", "XMC_DS")
             ELSE IF smc \in {XMC_TC0, XMC_TE}
             THEN IF sectType = STYP_DATA
                  THEN Result("SXCOFFTOC", "")
                  ELSE Result("Sxxx", "XMC_TC0")
             ELSE Result("Sxxx", "storageMap")

-----------------------------------------------------------------------------
(* The object files handed to Load.  xcoff.NewFile has already decoded     *)
(* them: Nreloc = len(Relocs), len(Data) = Size, and every relocation      *)
(* points at a Symbol.                                                     *)

SeqsUpTo(S, n) == UNION {[1..k -> S] : k \in 0..n}

NonEmptySeqsUpTo(S, n) == UNION {[1..k -> S] : k \in 1..n}

Bytes(n) == [j \in 1..n |-> 170]

Section(name, type, size, relocs) ==
    [Name |-> name, Type |-> type, Size |-> size, Data |-> Bytes(size),
     Nreloc |-> Len(relocs), Relocs |-> relocs]

Symbol(name, sn, class, smc, value) ==
    [Name |-> name, SectionNumber |-> sn, StorageClass |-> class,
     StorageMappingClass |-> smc, Value |-> value]

Reloc(va, sx, length, type) ==
    [VirtualAddress |-> va, Symbol |-> sx, Length |-> length, Type |-> type]

File(sections, symbols) == [Sections |-> sections, Symbols |-> symbols]

NoFile == File(<<>>, <<>>)

Names == {"x", "p(.a)"}

SectNames == {".a", ".b"}

\* values the loader has no case for: STYP_TEXT|STYP_DATA, which lies
\* inside [STYP_TEXT, STYP_BSS], and STYP_EXCEPT, which lies outside
OtherSectTypes == {96, 256}

\* C_STAT
OtherStorageClasses == {3}

\* XMC_RO, XMC_TC
OtherMappingClasses == {1, 3}

\* R_TOC
OtherRelocTypes == {3}

\* section types met by the section pass
SectTypes == {STYP_TEXT, STYP_DATA, STYP_BSS, STYP_DEBUG, 96}

\* section types met by getSymbolType
AllSectTypes == {STYP_TEXT, STYP_DATA, STYP_BSS, STYP_DEBUG, STYP_DWARF}
                    \cup OtherSectTypes

StorageClasses == {C_EXT, C_FILE, C_HIDEXT, C_WEAKEXT} \cup OtherStorageClasses

MappingClasses == {XMC_PR, XMC_RW, XMC_DS, XMC_TC0, XMC_TE} \cup OtherMappingClasses

CodeSym == Symbol("x", 1, C_EXT, XMC_PR, 8)

DataSym == Symbol("p(.a)", 2, C_EXT, XMC_RW, 16)

\* files that vary the sections
SectFiles ==
    {File(ss, <<CodeSym>>) :
        ss \in NonEmptySeqsUpTo(
                  {Section(n, t, z, <<>>) :
                       n \in SectNames, t \in SectTypes, z \in {0, 1}}, MaxSect)}

\* files that vary the symbol table
SymFiles ==
    {File(<<Section(".a", STYP_TEXT, 1, <<>>), Section(".b", STYP_DATA, 1, <<>>)>>, sy) :
        sy \in NonEmptySeqsUpTo(
                  {Symbol(n, c[1], c[2], c[3], 8) :
                       n \in Names,
                       c \in {<<-2, C_FILE, 0>>, <<-2, C_EXT, XMC_PR>>,
                              <<0, C_EXT, XMC_PR>>, <<1, C_EXT, XMC_PR>>,
                              <<1, C_EXT, XMC_TE>>, <<2, C_EXT, XMC_RW>>}}, MaxSym)}

RelocChoices ==
    {Reloc(va, sx, k[2], k[1]) :
        va \in {U64(0, 4), U64(1, 0)}, sx \in {CodeSym, DataSym},
        k \in {<<R_POS, 64>>, <<R_POS, 32>>, <<R_RBR, 26>>}
                 \cup {<<t, 16>> : t \in OtherRelocTypes}}

\* files that vary the relocation entries
RelocFiles ==
    {File(<<Section(".a", t, 1, rs), Section(".b", STYP_BSS, 1, <<>>)>>,
          <<CodeSym, DataSym>>) :
        t \in {STYP_TEXT, STYP_DATA}, rs \in SeqsUpTo(RelocChoices, MaxReloc)}

\* files with one section and one symbol entry: the inputs of getSymbolType
ClassifyFiles ==
    {File(<<Section(".a", t, 1, <<>>)>>, <<Symbol("x", sn, c, m, 8)>>) :
        t \in AllSectTypes, sn \in {-2, -1, 0, 1, 2},
        c \in StorageClasses, m \in MappingClasses}

\* files loaded one after the other
SeqFiles ==
    {File(<<Section(".a", t, z,
                    IF t = STYP_BSS THEN <<>>
                    ELSE <<Reloc(U64(0, 4), CodeSym, 26, R_RBR)>>)>>,
          <<CodeSym>>) :
        t \in {STYP_TEXT, STYP_DATA, STYP_BSS}, z \in {1, 2}}

Input(p, file) == [pkg |-> p, file |-> file]

\* what earlier loaders may have left in the namespace under version 0
PreSyms ==
    {EmptySyms} \cup
    {[k \in {Key("x", 0)} |-> [NewSym EXCEPT !.Type = ty[1], !.OnList = ty[2]]] :
        ty \in {<<"STEXT", FALSE>>, <<"STEXT", TRUE>>}}

Scenarios ==
    {[syms |-> S, inputs |-> <<Input("p", file)>>] :
        S \in PreSyms, file \in SymFiles}
    \cup
    {[syms |-> EmptySyms, inputs |-> <<Input("p", file)>>] :
        file \in SectFiles \cup RelocFiles \cup ClassifyFiles}
    \cup
    {[syms |-> EmptySyms, inputs |-> ins] :
        ins \in NonEmptySeqsUpTo(
                   {Input(p, file) : p \in {"p", "q"}, file \in SeqFiles}, MaxLoads)}

-----------------------------------------------------------------------------
(* Load *)

Init ==
    \E sc \in Scenarios :
        /\ syms = sc.syms
        /\ inputs = sc.inputs
        /\ nver = 1
        /\ pc = "idle"
        /\ pkg = ""
        /\ f = NoFile
        /\ localSymVersion = 0
        /\ ldSections = <<>>
        /\ isect = 1
        /\ isym = 1
        /\ irel = 1
        /\ cls = NoResult
        /\ textp = <<>>
        /\ ret = [textp |-> <<>>, err |-> ""]
        /\ syms0 = sc.syms
        /\ earlier = EmptySyms

\* the section symbols of the Load that ends with namespace S
Ended(S) ==
    [k \in DOMAIN earlier \cup {q \in DOMAIN S : q[2] = localSymVersion} |->
        IF k \in DOMAIN earlier THEN earlier[k] ELSE S[k]]

\* return tp, err
Return(S, tp, err) ==
    /\ pc' = "done"
    /\ ret' = [textp |-> tp, err |-> err]
    /\ earlier' = Ended(S)

\* lines 43-55, xcoff.NewFile succeeds
LoadStartNoIncVersion ==
    /\ pc \in {"idle", "done"}
    /\ inputs # <<>>
    /\ inputs' = Tail(inputs)
    /\ pkg' = Head(inputs).pkg
    /\ f' = Head(inputs).file
    /\ nver' = nver
    /\ localSymVersion' = nver - 1
    /\ syms0' = syms
    /\ pc' = "sections"
    /\ ldSections' = <<>>
    /\ isect' = 1
    /\ isym' = 1
    /\ irel' = 1
    /\ cls' = NoResult
    /\ textp' = <<>>
    /\ UNCHANGED <<syms, ret, earlier>>

LoadStart ==
    /\ pc \in {"idle", "done"}
    /\ inputs # <<>>
    /\ inputs' = Tail(inputs)
    /\ pkg' = Head(inputs).pkg
    /\ f' = Head(inputs).file
    /\ nver' = IncVersion(nver).nver
    /\ localSymVersion' = IncVersion(nver).version
    /\ syms0' = syms
    /\ pc' = "sections"
    /\ ldSections' = <<>>
    /\ isect' = 1
    /\ isym' = 1
    /\ irel' = 1
    /\ cls' = NoResult
    /\ textp' = <<>>
    /\ UNCHANGED <<syms, ret, earlier>>

\* lines 43-54, xcoff.NewFile fails
LoadNewFileFail ==
    /\ pc \in {"idle", "done"}
    /\ inputs # <<>>
    /\ inputs' = Tail(inputs)
    /\ pkg' = Head(inputs).pkg
    /\ f' = NoFile
    /\ nver' = IncVersion(nver).nver
    /\ localSymVersion' = IncVersion(nver).version
    /\ syms0' = syms
    /\ ldSections' = <<>>
    /\ isect' = 1
    /\ isym' = 1
    /\ irel' = 1
    /\ cls' = NoResult
    /\ textp' = <<>>
    /\ pc' = "done"
    /\ ret' = [textp |-> <<>>, err |-> "NewFile"]
    /\ UNCHANGED <<syms, earlier>>

\* the switch of lines 67-76: the kind the section symbol ends with
SectKind(type, old) ==
    IF type = STYP_TEXT THEN "STEXT"
    ELSE IF type = STYP_DATA THEN "SNOPTRDATA"
    ELSE IF type = STYP_BSS THEN "SNOPTRBSS"
    ELSE old

\* lines 57-89, one iteration
SectionStep ==
    /\ pc = "sections"
    /\ isect <= Len(f.Sections)
    /\ isect' = isect + 1
    /\ UNCHANGED <<nver, inputs, pkg, f, localSymVersion, isym, irel, cls,
                   textp, syms0>>
    /\ LET sect == f.Sections[isect]
           name == SectSymName(pkg, sect.Name)
           key == Key(name, localSymVersion)
           S1 == Lookup(syms, name, localSymVersion)
           kind == SectKind(sect.Type, S1[key].Type)
           S2 == [S1 EXCEPT ![key].Type = kind, ![key].Size = sect.Size]
           S3 == [S2 EXCEPT ![key].P = Buf(sect.Data)]
       IN  IF sect.Type < STYP_TEXT \/ sect.Type > STYP_BSS
           THEN UNCHANGED <<syms, ldSections, pc, ret, earlier>>
           ELSE IF kind = "SNOPTRBSS"
           THEN /\ syms' = S2
                /\ ldSections' = Append(ldSections, [Section |-> sect, sym |-> key])
                /\ UNCHANGED <<pc, ret, earlier>>
           ELSE \E dataOK \in BOOLEAN :
                   IF dataOK
                   THEN /\ syms' = S3
                        /\ ldSections' =
                               Append(ldSections, [Section |-> sect, sym |-> key])
                        /\ UNCHANGED <<pc, ret, earlier>>
                   ELSE /\ syms' = S2
                        /\ UNCHANGED ldSections
                        /\ Return(S2, <<>>, "Data")

\* line 57, the loop ends
SectionsDone ==
    /\ pc = "sections"
    /\ isect > Len(f.Sections)
    /\ pc' = "symbols"
    /\ UNCHANGED <<syms, nver, inputs, pkg, f, localSymVersion, ldSections,
                   isect, isym, irel, cls, textp, ret, syms0, earlier>>

\* lines 93-120, one iteration
SymbolStep ==
    /\ pc = "symbols"
    /\ isym <= Len(f.Symbols)
    /\ UNCHANGED <<nver, inputs, pkg, f, localSymVersion, ldSections, isect,
                   irel, ret, syms0>>
    /\ LET sx == f.Symbols[isym]
           r == GetSymbolType(f, sx)
           key == Key(sx.Name, 0)
           S1 == Lookup(syms, sx.Name, 0)
       IN  IF sx.SectionNumber \notin {-2, 0} /\ ~SectIndexOK(f, sx)
           THEN \* index out of range: the run-time panic ends the program
                /\ pc' = "panic"
                /\ UNCHANGED <<syms, isym, cls, textp, earlier>>
           ELSE /\ cls' = r
                /\ isym' = isym + 1
                /\ UNCHANGED <<pc, earlier>>
                /\ IF r.stype = "Sxxx"
                   THEN UNCHANGED <<syms, textp>>
                   ELSE IF S1[key].Type = "STEXT"
                   THEN /\ syms' = [S1 EXCEPT ![key].OnList = TRUE]
                        /\ textp' = Append(textp, key)
                   ELSE /\ syms' = S1
                        /\ UNCHANGED textp

\* line 93, the loop ends
SymbolsDone ==
    /\ pc = "symbols"
    /\ isym > Len(f.Symbols)
    /\ pc' = "relocs"
    /\ UNCHANGED <<syms, nver, inputs, pkg, f, localSymVersion, ldSections,
                   isect, isym, irel, cls, textp, ret, syms0, earlier>>

\* lines 130-155: the record written to rs[i] for the raw entry rx
TranslateReloc(rx) ==
    LET r0 == [ZeroReloc EXCEPT !.Sym = Key(rx.Symbol.Name, 0),
                                !.Off = Int32(rx.VirtualAddress)]
    IN  IF rx.Type = R_POS
        THEN [r0 EXCEPT !.Siz = 8, !.Type = "R_CONST", !.Add = rx.Symbol.Value]
        ELSE IF rx.Type = R_RBR
        THEN [r0 EXCEPT !.Siz = 4, !.Type = "R_CALLPOWER", !.Add = 0]
        ELSE r0

\* lines 128-159: s.R of the section's symbol
SectRelocs(sect) ==
    [j \in 1..sect.Nreloc |->
        IF j <= Len(sect.Relocs) THEN TranslateReloc(sect.Relocs[j]) ELSE ZeroReloc]

\* lines 123-160, one iteration
RelocStep ==
    /\ pc = "relocs"
    /\ irel <= Len(ldSections)
    /\ irel' = irel + 1
    /\ UNCHANGED <<nver, inputs, pc, pkg, f, localSymVersion, ldSections,
                   isect, isym, cls, textp, ret, syms0, earlier>>
    /\ LET lds == ldSections[irel]
           sect == lds.Section
           S1 == LookupAll(syms, [j \in 1..Len(sect.Relocs) |->
                                     sect.Relocs[j].Symbol.Name])
       IN  IF sect.Type # STYP_TEXT /\ sect.Type # STYP_DATA
           THEN UNCHANGED syms
           ELSE syms' = [S1 EXCEPT ![lds.sym].R = SectRelocs(sect)]

\* line 161
LoadReturn ==
    /\ pc = "relocs"
    /\ irel > Len(ldSections)
    /\ Return(syms, textp, "nil")
    /\ UNCHANGED <<syms, nver, inputs, pkg, f, localSymVersion, ldSections,
                   isect, isym, irel, cls, textp, syms0>>

Next ==
    \/ LoadStart
    \/ LoadNewFileFail
    \/ SectionStep
    \/ SectionsDone
    \/ SymbolStep
    \/ SymbolsDone
    \/ RelocStep
    \/ LoadReturn

Spec == Init /\ [][Next]_vars

-----------------------------------------------------------------------------
(* Properties *)

Failed == pc = "done" /\ ret.err \notin {"", "nil"} /\ ret.textp = <<>>

Succeeded == pc = "done" /\ ret.err = "nil"

\* the symbol entries the symbol loop has gone through
Processed == 1..(isym - 1)

Classify(j) == GetSymbolType(f, f.Symbols[j])

\* the retained sections the relocation loop has gone through
Translated == {k \in 1..Len(ldSections) : k < irel}

HasRelocs(k) == ldSections[k].Section.Type \in {STYP_TEXT, STYP_DATA}

RawRelocs(k) == ldSections[k].Section.Relocs

SymRelocs(k) == syms[ldSections[k].sym].R

\* C1: when getSymbolType reports a failure for a symbol entry, Load returns
\* an error and no list, and no entry after the failing one is processed.
C1_AbortOnClassifyFailure ==
    \A j \in Processed :
        Classify(j).err # "" => (Failed /\ isym = j + 1)

\* the entry j is one the symbol loop appends to textp
IsListed(j) ==
    /\ Classify(j).stype # "Sxxx"
    /\ Key(f.Symbols[j].Name, 0) \in DOMAIN syms0
    /\ syms0[Key(f.Symbols[j].Name, 0)].Type = "STEXT"

\* the entry j meets a Text symbol whose on-list flag is already set
MeetsListed(j) ==
    /\ IsListed(j)
    /\ \/ syms0[Key(f.Symbols[j].Name, 0)].OnList
       \/ \E h \in 1..(j - 1) :
              IsListed(h) /\ f.Symbols[h].Name = f.Symbols[j].Name

\* C2: no symbol occurs twice in textp, and meeting a Text symbol that is
\* already on a list makes Load return a failure.
C2_NoTextSymbolListedTwice ==
    /\ \A a, b \in 1..Len(textp) : textp[a] = textp[b] => a = b
    /\ \A j \in Processed : MeetsListed(j) => Failed

\* C3: an R_POS entry whose Length is not 64 makes Load fail and leaves no
\* record of size 8; with Length 64 the record has size 8, kind R_CONST and
\* the target's Value as addend.
C3_RPosLength ==
    \A k \in Translated : HasRelocs(k) =>
        \A j \in 1..Len(RawRelocs(k)) : RawRelocs(k)[j].Type = R_POS =>
            /\ RawRelocs(k)[j].Length # 64 =>
                   /\ Failed
                   /\ ~(j <= Len(SymRelocs(k)) /\ SymRelocs(k)[j].Siz = 8)
            /\ (RawRelocs(k)[j].Length = 64 /\ Succeeded) =>
                   /\ j <= Len(SymRelocs(k))
                   /\ SymRelocs(k)[j].Siz = 8
                   /\ SymRelocs(k)[j].Type = "R_CONST"
                   /\ SymRelocs(k)[j].Add = RawRelocs(k)[j].Symbol.Value

\* C4: an entry of a type other than R_POS and R_RBR makes Load fail, and
\* the section's symbol holds no zero-valued record for it.
C4_UnknownRelocFatal ==
    \A k \in Translated : HasRelocs(k) =>
        \A j \in 1..Len(RawRelocs(k)) :
            RawRelocs(k)[j].Type \notin {R_POS, R_RBR} =>
                /\ Failed
                /\ ~(/\ j <= Len(SymRelocs(k))
                     /\ SymRelocs(k)[j].Siz = 0
                     /\ SymRelocs(k)[j].Type = "0")

\* the version-0 symbols of the entries getSymbolType classifies as Text
TextEntries ==
    LET idx == {j \in 1..Len(f.Symbols) : Classify(j).stype = "STEXT"}
        Nth[n \in 1..Cardinality(idx)] ==
            CHOOSE j \in idx : Cardinality({h \in idx : h < j}) = n - 1
    IN  [n \in 1..Cardinality(idx) |-> Key(f.Symbols[Nth[n]].Name, 0)]

\* C5: a Load without error on an empty namespace returns, in symbol-table
\* order, exactly the symbols whose entries are classified as Text.
C5_TextSymbolsAreTheOutput ==
    (Succeeded /\ syms0 = EmptySyms) => ret.textp = TextEntries

\* the decision table of the classifier: the kind of a symbol entry with
\* section reference sn > 0 into a section of type st
TableKind(st, class, smc) ==
    IF class \notin {C_HIDEXT, C_EXT, C_WEAKEXT} THEN "Sxxx"
    ELSE IF smc = XMC_PR /\ st = STYP_TEXT THEN "STEXT"
    ELSE IF smc = XMC_RW /\ st \in {STYP_DATA, STYP_BSS} THEN "SDATA"
    ELSE IF smc = XMC_DS /\ st = STYP_DATA THEN "SDATA"
    ELSE IF smc \in {XMC_TC0, XMC_TE} /\ st = STYP_DATA THEN "SXCOFFTOC"
    ELSE "Sxxx"

\* the entries skipped without error
TableSkip(sn, st, class) ==
    \/ sn = -2 /\ class = C_FILE
    \/ sn = 0
    \/ sn > 0 /\ st \in {STYP_DEBUG, STYP_DWARF}

\* the first check that fails, in the order section reference, section
\* type, storage class, mapping class
TableError(sn, st, class) ==
    IF sn = -2 THEN {"sectionNumber-2"}
    ELSE IF st \notin {STYP_TEXT, STYP_DATA, STYP_BSS} THEN {"sectType"}
    ELSE IF class \notin {C_HIDEXT, C_EXT, C_WEAKEXT} THEN {"storageClass"}
    ELSE {"storageMap", "XMC_PR", "XMC_RW", "XMC_DS", "XMC_TC0"}

C7_FreshScopePerLoad ==
    /\ \A k \in DOMAIN earlier :
           /\ k[2] # 0
           /\ k \in DOMAIN syms
           /\ syms[k].Type = earlier[k].Type
           /\ syms[k].Size = earlier[k].Size
           /\ syms[k].P = earlier[k].P
           /\ syms[k].R = earlier[k].R
    /\ pc \in {"sections", "symbols", "relocs"} =>
           /\ localSymVersion # 0
           /\ \A k \in DOMAIN earlier : k[2] # localSymVersion
           /\ \A j \in 1..Len(ldSections) :
                  /\ ldSections[j].sym[2] = localSymVersion
                  /\ ldSections[j].sym \notin DOMAIN earlier

\* two Loads with the same package and section name have ended, and the
\* later one gave its symbol another kind or size
C7_Witness ==
    /\ pc = "done"
    /\ \E a, b \in DOMAIN earlier :
           /\ a[1] = b[1]
           /\ a[2] < b[2]
           /\ syms[a].Type # syms[b].Type
           /\ syms[a].Size # syms[b].Size

\* the section pass has gone through every section without an error
AfterSectionPass == pc \in {"symbols", "relocs"} \/ Succeeded

Retained == {j \in 1..Len(f.Sections) :
                f.Sections[j].Type >= STYP_TEXT /\ f.Sections[j].Type <= STYP_BSS}

\* C8: after the section pass every section of a type in
\* [STYP_TEXT, STYP_BSS] has a symbol of its own and no other section has
\* one; the symbol's Size is the section's size; the symbol of a Bss section
\* has no buffer and the symbol of a Text or Data section holds the
\* section's payload.
C8_SectionSymbolShape ==
    AfterSectionPass =>
        /\ Len(ldSections) = Cardinality(Retained)
        /\ \A a, b \in 1..Len(ldSections) :
               ldSections[a].sym = ldSections[b].sym => a = b
        /\ {k \in DOMAIN syms : k[2] = localSymVersion} =
               {ldSections[j].sym : j \in 1..Len(ldSections)}
        /\ \A j \in 1..Len(ldSections) :
               LET sect == ldSections[j].Section
                   s == syms[ldSections[j].sym]
               IN  /\ s.Size = sect.Size
                   /\ sect.Type = STYP_BSS => s.P = NilBuf
                   /\ sect.Type \in {STYP_TEXT, STYP_DATA} => s.P = Buf(sect.Data)

\* C9: after a Load without error the symbol of a Text or Data section with
\* N relocation entries has N records, record i having the virtual address
\* of entry i as offset and the version-0 symbol named by entry i as
\* target; the symbol of a Bss section has no relocation list.
C9_RelocCardinalityAndOrder ==
    Succeeded =>
        \A k \in 1..Len(ldSections) :
            IF HasRelocs(k)
            THEN /\ Len(SymRelocs(k)) = Len(RawRelocs(k))
                 /\ \A j \in 1..Len(RawRelocs(k)) :
                        /\ U64OfInt32(SymRelocs(k)[j].Off) = RawRelocs(k)[j].VirtualAddress
                        /\ SymRelocs(k)[j].Sym = Key(RawRelocs(k)[j].Symbol.Name, 0)
            ELSE ldSections[k].Section.Type = STYP_BSS => SymRelocs(k) = <<>>

\* the sections the section loop has gone through
Extracted == {j \in 1..Len(f.Sections) : j < isect}

\* C10: a section whose type lies in [STYP_TEXT, STYP_BSS] but is none of
\* STYP_TEXT, STYP_DATA, STYP_BSS makes Load return an error, and no
\* retained section has a symbol without kind that carries a buffer.
C10_UnrecognizedSectionTypeFails ==
    /\ \A j \in Extracted :
           (/\ f.Sections[j].Type >= STYP_TEXT
            /\ f.Sections[j].Type <= STYP_BSS
            /\ f.Sections[j].Type \notin {STYP_TEXT, STYP_DATA, STYP_BSS}) => Failed
    /\ \A k \in 1..Len(ldSections) :
           ~(/\ syms[ldSections[k].sym].Type = "Sxxx"
             /\ syms[ldSections[k].sym].P # NilBuf)

====
